---- MODULE Spec2Model ----
(***************************************************************************)
(* Model of reagraph's Line symbol and GraphScene component                *)
(* (src/src/symbols/Line.tsx).                                             *)
(*                                                                         *)
(* Line: a function component holding two springs (opacity, vertices) and  *)
(* a tube geometry that the vertex spring's onChange handler rebuilds.     *)
(* GraphScene: a projection of the store's node/edge lists into elements,  *)
(* plus an imperative ref handle {graph, centerGraph}.                     *)
(***************************************************************************)
EXTENDS Integers, Sequences, FiniteSets, TLC

(* ---------------------------------------------------------------------- *)
(* Bounds                                                                   *)
(* ---------------------------------------------------------------------- *)
MaxCoord == 2

(* ---------------------------------------------------------------------- *)
(* JavaScript values                                                        *)
(* Numbers are 0..MaxCoord; undefined and NaN are encoded as negative       *)
(* integers so that every coordinate is comparable to every other.          *)
(* ---------------------------------------------------------------------- *)
Undefined == -1
NaN == -2
Null == "null"

LineIds == {"e1", "e2"}
NodeIds == {"n1", "n2", "n3"}

\* `!draggingId`: null and the empty string are falsy, any other id truthy.
Truthy(v) == v # Null /\ v # ""

\* `v || 0` on a number-or-undefined value.
OrZero(v) == IF v = Undefined \/ v = NaN \/ v = 0 THEN 0 ELSE v

(* ---------------------------------------------------------------------- *)
(* Point3 / EdgeVectors3                                                    *)
(* ---------------------------------------------------------------------- *)
Pt(a, b, c) == [present |-> TRUE, x |-> a, y |-> b, z |-> c]
MissingPoint == [present |-> FALSE, x |-> Undefined, y |-> Undefined, z |-> Undefined]

\* Positions a layout hands to an edge: 3D points, and 2D points with no z.
PointA == Pt(0, MaxCoord, Undefined)
PointB == Pt(MaxCoord, 0, MaxCoord)
Edge(f, t) == [from |-> f, to |-> t]
PointPairs ==
    {Edge(PointA, PointB), Edge(PointB, PointA), Edge(PointA, PointA),
     Edge(MissingPoint, PointB)}

\* `p?.f`
OptChain(p, f) == IF p.present THEN p[f] ELSE Undefined

\* The spring target of one endpoint: [p?.x, p?.y, p?.z || 0].
VertexTarget(p) == <<OptChain(p, "x"), OptChain(p, "y"), OrZero(OptChain(p, "z"))>>

Origin == <<0, 0, 0>>

(* ---------------------------------------------------------------------- *)
(* Line props                                                               *)
(* ---------------------------------------------------------------------- *)
\* Line.defaultProps: size 1, opacity 1.  Sizes are kept even so that
\* size / 2 is an integer; opacity is counted in steps of 1 / MaxOpacity.
MaxOpacity == 2
SizeSet == {2, 4}
OpacitySet == 0..MaxOpacity

LineProps == [points : PointPairs, size : SizeSet, animated : BOOLEAN,
              curved : BOOLEAN, opacity : OpacitySet]

(* ---------------------------------------------------------------------- *)
(* State                                                                    *)
(* ---------------------------------------------------------------------- *)
VARIABLES
    mounted,     \* mounted[l]: the Line with id l is in the tree
    props,       \* props[l]: the props of l's last render
    opac,        \* opac[l]: the lineOpacity spring
    vert,        \* vert[l]: the fromVertices / toVertices spring controller
    tube,        \* tube[l]: the geometry held by tubeRef.current
    draggingId,  \* the store's state.draggingId
    ptr,         \* pointer-event bookkeeping of one Line's mesh
    store,       \* the store's graph, nodes and edges
    scene,       \* what GraphScene last rendered
    handle,      \* the GraphSceneRef handle
    camera       \* what the camera was last centered on

vars == <<mounted, props, opac, vert, tube, draggingId, ptr, store, scene, handle, camera>>

(* ---------------------------------------------------------------------- *)
(* react-spring: one animated value                                         *)
(* ---------------------------------------------------------------------- *)
\* config.duration: `cond ? undefined : 0`
Duration(animate) == IF animate THEN Undefined ELSE 0

\* Line 56: the opacity spring animates when `animated` is set.
OpacityDurationDragAware(animated, dragging) == Duration(animated /\ ~Truthy(dragging))

OpacityDuration(animated, dragging) == Duration(animated)

\* Line 85: the vertex spring animates when `animated && !draggingId`.
VertexDurationIgnoresDrag(animated, dragging) == Duration(animated)

VertexDuration(animated, dragging) == Duration(animated /\ ~Truthy(dragging))

\* One frame of one number: duration 0 lands on the goal, an undefined
\* duration moves one unit toward it; arithmetic on undefined or NaN is NaN.
StepNumber(cur, goal, duration) ==
    IF cur = NaN \/ goal = NaN \/ goal = Undefined \/ cur = Undefined THEN NaN
    ELSE IF duration = 0 THEN goal
    ELSE IF cur < goal THEN cur + 1
    ELSE IF cur > goal THEN cur - 1
    ELSE cur

StepVector(cur, goal, duration) ==
    [i \in 1..3 |-> StepNumber(cur[i], goal[i], duration)]

HasNaN(v) == \E i \in 1..3 : v[i] = NaN

\* A spring value: current value, goal (`to`), and whether it is animating.
Key(value, goal, active) == [value |-> value, goal |-> goal, active |-> active]

\* SpringValue update with a new `to`: the animation starts when the goal
\* changed and the current value is not already there; otherwise the value
\* keeps doing what it was doing.
UpdateKey(k, to) ==
    IF to # k.goal
    THEN Key(k.value, to, k.active \/ k.value # to)
    ELSE k

\* One frame of a key: an idle key is not advanced.
AdvanceKey(k, duration) ==
    IF ~k.active THEN k
    ELSE LET v == StepVector(k.value, k.goal, duration)
         IN  Key(v, k.goal, ~(v = k.goal \/ HasNaN(v)))

\* Did the frame change the key's value (NaN never equals its old self).
KeyChanged(k) == k.active /\ (k.value # k.goal \/ HasNaN(k.value))

\* The lineOpacity spring (lines 47-58): a single number.
StepOpacity(o) ==
    IF ~o.active THEN o
    ELSE LET v == StepNumber(o.value, o.goal, o.duration)
         IN  [o EXCEPT !.value = v, !.active = ~(v = o.goal \/ v = NaN)]

(* ---------------------------------------------------------------------- *)
(* three.js: vectors, curves, tube geometry                                 *)
(* ---------------------------------------------------------------------- *)
\* new Vector3(...v): a missing component defaults to 0, NaN stays NaN.
Vector3(v) == [i \in 1..3 |-> IF v[i] = Undefined THEN 0 ELSE v[i]]

AddNumber(a, b) == IF a = NaN \/ b = NaN THEN NaN ELSE a + b

Vertex(v) == [kind |-> "vertex", at |-> v]
Auxiliary(f, t) == [kind |-> "aux", at |-> [i \in 1..3 |-> AddNumber(f[i], t[i])]]

\* getCurvePoints(from, to): the endpoints with an auxiliary control point
\* between them.
getCurvePoints(fromVector, toVector) ==
    <<Vertex(fromVector), Auxiliary(fromVector, toVector), Vertex(toVector)>>

\* Lines 76-78: the curve the tube follows.
CurveAlwaysAuxiliary(curved, fromVector, toVector) ==
    getCurvePoints(fromVector, toVector)

Curve(curved, fromVector, toVector) ==
    IF curved
    THEN getCurvePoints(fromVector, toVector)
    ELSE <<Vertex(fromVector), Vertex(toVector)>>

TubularSegments == 20
RadialSegments == 5

\* new TubeBufferGeometry(curve, 20, size / 2, 5, false)
TubeBufferGeometry(curve, tubularSegments, radius, radialSegments, closed) ==
    [built |-> TRUE, path |-> curve, tubularSegments |-> tubularSegments,
     radius |-> radius, radialSegments |-> radialSegments, closed |-> closed]

\* <tubeBufferGeometry attach="geometry" ref={tubeRef} />: nothing copied yet.
EmptyTube ==
    [built |-> FALSE, path |-> <<>>, tubularSegments |-> 0,
     radius |-> 0, radialSegments |-> 0, closed |-> FALSE]

\* The onChange handler (lines 70-82) as captured with `curved` and `size`.
onChange(curved, size, fromVertices, toVertices) ==
    LET fromVector == Vector3(fromVertices)
        toVector == Vector3(toVertices)
    IN  TubeBufferGeometry(Curve(curved, fromVector, toVector),
                           TubularSegments, size \div 2, RadialSegments, FALSE)

(* ---------------------------------------------------------------------- *)
(* Line (lines 28-122)                                                      *)
(* ---------------------------------------------------------------------- *)
NoProps ==
    [points |-> [from |-> MissingPoint, to |-> MissingPoint], size |-> 2,
     animated |-> FALSE, curved |-> FALSE, opacity |-> 0]
NoOpacity == [value |-> 0, goal |-> 0, active |-> FALSE, duration |-> 0]
NoVertices ==
    [fromVertices |-> Key(Origin, Origin, FALSE),
     toVertices |-> Key(Origin, Origin, FALSE),
     duration |-> 0, curved |-> FALSE, size |-> 2, dragSeen |-> Null]

\* Lines 47-58: useSpring with an object, applied on every render.
\* First render: from lineOpacity 0.
OpacitySpring(first, old, p, dragging) ==
    LET cur == IF first THEN 0 ELSE old.value
        was == IF first THEN FALSE ELSE old.active
        moved == first \/ p.opacity # old.goal
    IN  [value |-> cur, goal |-> p.opacity,
         active |-> IF moved THEN was \/ cur # p.opacity ELSE was,
         duration |-> OpacityDuration(p.animated, dragging)]

\* Line 88: the dependency list [animated, draggingId, points, size].
\* `fresh` says that `points` is a new object.
DepsOmitDragging(old, seen, p, dragging, fresh) ==
    \/ p.animated # old.animated
    \/ fresh
    \/ p.size # old.size

DepsChanged(old, seen, p, dragging, fresh) ==
    \/ p.animated # old.animated
    \/ dragging # seen
    \/ fresh
    \/ p.size # old.size

\* Lines 60-89: useSpring with a function and deps.  The first render
\* creates the controller from [0, 0, 0]; later renders update it only when
\* a dependency changed, and only then replace the onChange closure.
VertexSpring(first, old, oldProps, p, dragging, fresh) ==
    LET base == IF first THEN NoVertices ELSE old
    IN  IF first \/ DepsChanged(oldProps, old.dragSeen, p, dragging, fresh)
        THEN [fromVertices |-> UpdateKey(base.fromVertices, VertexTarget(p.points.from)),
              toVertices |-> UpdateKey(base.toVertices, VertexTarget(p.points.to)),
              duration |-> VertexDuration(p.animated, dragging),
              curved |-> p.curved,
              size |-> p.size,
              dragSeen |-> dragging]
        ELSE old

\* One frame of a Line's vertex controller: advance the active keys and,
\* when a value changed, run the current onChange handler on the new values.
AdvanceVertices(v) ==
    [v EXCEPT !.fromVertices = AdvanceKey(@, v.duration),
              !.toVertices = AdvanceKey(@, v.duration)]

VerticesChanged(v) == KeyChanged(v.fromVertices) \/ KeyChanged(v.toVertices)

TubeAfterFrame(v, t) ==
    IF VerticesChanged(v)
    THEN LET w == AdvanceVertices(v)
         IN  onChange(v.curved, v.size, w.fromVertices.value, w.toVertices.value)
    ELSE t

Animating(l) ==
    mounted[l] /\ (opac[l].active \/ vert[l].fromVertices.active \/ vert[l].toVertices.active)

\* A render of Line l with props p while the store holds draggingId.
LineRender(l, p, fresh) ==
    /\ mounted[l] => (p.points # props[l].points => fresh)
    /\ ~mounted[l] => fresh
    /\ mounted' = [mounted EXCEPT ![l] = TRUE]
    /\ props' = [props EXCEPT ![l] = p]
    /\ opac' = [opac EXCEPT ![l] = OpacitySpring(~mounted[l], @, p, draggingId)]
    /\ vert' = [vert EXCEPT ![l] = VertexSpring(~mounted[l], @, props[l], p, draggingId, fresh)]
    /\ tube' = [tube EXCEPT ![l] = IF mounted[l] THEN @ ELSE EmptyTube]
    /\ UNCHANGED draggingId

\* The edge leaves the edge list: the Line and its springs are dropped.
LineUnmount(l) ==
    /\ mounted[l]
    /\ mounted' = [mounted EXCEPT ![l] = FALSE]
    /\ props' = [props EXCEPT ![l] = NoProps]
    /\ opac' = [opac EXCEPT ![l] = NoOpacity]
    /\ vert' = [vert EXCEPT ![l] = NoVertices]
    /\ tube' = [tube EXCEPT ![l] = EmptyTube]
    /\ UNCHANGED draggingId

\* Line 43: the store's draggingId changes; every mounted Line subscribes
\* to it and renders again with its props unchanged.
SetDraggingId(d) ==
    /\ d # draggingId
    /\ draggingId' = d
    /\ opac' = [l \in LineIds |->
                  IF mounted[l] THEN OpacitySpring(FALSE, opac[l], props[l], d) ELSE opac[l]]
    /\ vert' = [l \in LineIds |->
                  IF mounted[l]
                  THEN VertexSpring(FALSE, vert[l], props[l], props[l], d, FALSE)
                  ELSE vert[l]]
    /\ UNCHANGED <<mounted, props, tube>>

\* One animation frame: the frame loop advances every active spring.
Frame ==
    /\ \E l \in LineIds : Animating(l)
    /\ opac' = [l \in LineIds |-> StepOpacity(opac[l])]
    /\ vert' = [l \in LineIds |-> AdvanceVertices(vert[l])]
    /\ tube' = [l \in LineIds |-> TubeAfterFrame(vert[l], tube[l])]
    /\ UNCHANGED <<mounted, props, draggingId>>

LineInit ==
    /\ mounted = [l \in LineIds |-> FALSE]
    /\ props = [l \in LineIds |-> NoProps]
    /\ opac = [l \in LineIds |-> NoOpacity]
    /\ vert = [l \in LineIds |-> NoVertices]
    /\ tube = [l \in LineIds |-> EmptyTube]
    /\ draggingId = Null

(* ---------------------------------------------------------------------- *)
(* Line: the mesh's event handlers (lines 91-110)                           *)
(* ---------------------------------------------------------------------- *)
MaxButtons == 4
MaxEvents == 3

Callbacks == {"onClick", "onContextMenu", "onPointerOver", "onPointerOut", "onActive"}

\* `event.nativeEvent.buttons === 2`
IsContextMenuBitTest(buttons) == (buttons \div 2) % 2 = 1

IsContextMenu(buttons) == buttons = 2

\* What one handler run did: the callbacks it invoked, whether it stopped
\* propagation, whether it threw (calling a callback that was not passed).
Outcome(type, buttons, called, stopped, threw) ==
    [type |-> type, buttons |-> buttons, called |-> called,
     stopped |-> stopped, threw |-> threw]

\* Lines 103-109.  onContextMenu is called without a guard.
onPointerDown(given, buttons) ==
    IF IsContextMenu(buttons)
    THEN Outcome("pointerdown", buttons, {"onContextMenu"} \cap given, TRUE,
                 "onContextMenu" \notin given)
    ELSE Outcome("pointerdown", buttons, {}, FALSE, FALSE)

\* Line 102: onClick={onClick}.
onClick(given) ==
    Outcome("click", 0, {"onClick"} \cap given, FALSE, FALSE)

\* Lines 94-101: onActive(state) is called without a guard, the other with ?.
onHover(given, type, callback) ==
    IF "onActive" \in given
    THEN Outcome(type, 0, {"onActive", callback} \cap given, FALSE, FALSE)
    ELSE Outcome(type, 0, {}, FALSE, TRUE)

Record(out) ==
    [given |-> ptr.given,
     last |-> out,
     count |-> [c \in Callbacks |-> IF c \in out.called THEN ptr.count[c] + 1 ELSE ptr.count[c]],
     stops |-> IF out.stopped THEN ptr.stops + 1 ELSE ptr.stops,
     events |-> ptr.events + 1,
     active |-> IF "onActive" \in out.called THEN out.type = "pointerover" ELSE ptr.active]

PointerDown(buttons) ==
    /\ ptr.events < MaxEvents
    /\ ptr' = Record(onPointerDown(ptr.given, buttons))

Click ==
    /\ ptr.events < MaxEvents
    /\ ptr' = Record(onClick(ptr.given))

PointerOver ==
    /\ ptr.events < MaxEvents
    /\ ptr' = Record(onHover(ptr.given, "pointerover", "onPointerOver"))

PointerOut ==
    /\ ptr.events < MaxEvents
    /\ ptr' = Record(onHover(ptr.given, "pointerout", "onPointerOut"))

PointerInit ==
    \E g \in SUBSET Callbacks :
        ptr = [given |-> g,
               last |-> Outcome("none", 0, {}, FALSE, FALSE),
               count |-> [c \in Callbacks |-> 0],
               stops |-> 0,
               events |-> 0,
               active |-> FALSE]

(* ---------------------------------------------------------------------- *)
(* GraphScene (lines 322-406)                                               *)
(* ---------------------------------------------------------------------- *)
MaxNodes == 3

GraphSet == {"graph1", "graph2"}
EdgeShapes == {"line", "curve"}

\* The graph the host passes: an edge joins two nodes.
Source(e) == IF e = "e1" THEN "n1" ELSE "n2"
Target(e) == IF e = "e1" THEN "n2" ELSE "n3"
GraphNode(n) == [id |-> n]
GraphEdge(e) == [id |-> e, source |-> Source(e), target |-> Target(e)]

RECURSIVE SeqsOver(_, _)
\* The duplicate-free sequences over S of length at most n.
SeqsOver(S, n) ==
    IF n = 0 \/ S = {} THEN {<<>>}
    ELSE {<<>>} \cup UNION {{<<x>> \o t : t \in SeqsOver(S \ {x}, n - 1)} : x \in S}

NodeLists == {[i \in 1..Len(q) |-> GraphNode(q[i])] : q \in SeqsOver(NodeIds, MaxNodes)}
EdgeLists == {[i \in 1..Len(q) |-> GraphEdge(q[i])] : q \in SeqsOver(LineIds, MaxNodes)}

SceneProps == [animated : BOOLEAN, edgeShape : EdgeShapes]

\* Lines 349-353: the selector's id lists.
Ids(list) == [i \in 1..Len(list) |-> list[i].id]

\* Lines 370-385 and 386-402: one element per id, keyed by the id.
NodeElement(n, p) == [type |-> "Node", key |-> n, id |-> n, animated |-> p.animated]
EdgeElement(e, p) ==
    [type |-> "Edge", key |-> e, id |-> e, animated |-> p.animated,
     curved |-> (p.edgeShape = "curve")]

MapDropLast(ids, p) ==
    [i \in 1..(IF Len(ids) = 0 THEN 0 ELSE Len(ids) - 1) |-> NodeElement(ids[i], p)]

MapNodes(ids, p) == [i \in 1..Len(ids) |-> NodeElement(ids[i], p)]
MapEdges(ids, p) == [i \in 1..Len(ids) |-> EdgeElement(ids[i], p)]

\* Lines 368-404: the Fragment GraphScene returns.
Fragment(st, p) ==
    [props |-> p,
     nodes |-> MapNodes(Ids(st.nodes), p),
     edges |-> MapEdges(Ids(st.edges), p)]

\* useCenterGraph({ animated }).centerNodesById: the function the hook
\* returns for this `animated`.
useCenterGraph(animated) == [fn |-> "centerNodesById", animated |-> animated]

\* centerNodesById(ids): no ids centers on every node, ids on those nodes.
centerNodesById(fn, nodes, arg) ==
    [by |-> fn,
     received |-> arg,
     centered |-> IF arg.given THEN arg.ids ELSE {nodes[i].id : i \in 1..Len(nodes)}]

\* Lines 359-366: the handle is rebuilt when centerGraph or graph changed.
HandleDepsOmitGraph(old, centerGraph, graph) ==
    IF old.centerGraph # centerGraph
    THEN [centerGraph |-> centerGraph, graph |-> graph]
    ELSE old

useImperativeHandle(old, centerGraph, graph) ==
    IF old.centerGraph # centerGraph \/ old.graph # graph
    THEN [centerGraph |-> centerGraph, graph |-> graph]
    ELSE old

\* A render of GraphScene with props p over store state st.
GraphSceneRender(st, p) ==
    /\ scene' = Fragment(st, p)
    /\ handle' = useImperativeHandle(handle, useCenterGraph(p.animated), st.graph)

\* Line 347: useGraph writes the host's nodes and edges to the store; the
\* store notifies GraphScene, which renders again.
SetGraph(g, ns, es) ==
    LET st == [graph |-> g, nodes |-> ns, edges |-> es]
    IN  /\ st # store
        /\ store' = st
        /\ GraphSceneRender(st, scene.props)
        /\ UNCHANGED camera

\* The host renders GraphScene with other props.
SceneRender(p) ==
    /\ p # scene.props
    /\ GraphSceneRender(store, p)
    /\ UNCHANGED <<store, camera>>

\* The host calls ref.current.centerGraph(ids?) .
NoIds == [given |-> FALSE, ids |-> {}]
SomeIds(S) == [given |-> TRUE, ids |-> S]

CenterGraph(arg) ==
    /\ camera' = [passed |-> arg, called |-> TRUE,
                  result |-> centerNodesById(handle.centerGraph, store.nodes, arg)]
    /\ UNCHANGED <<store, scene, handle>>

SceneInit ==
    /\ store = [graph |-> "graph1", nodes |-> <<>>, edges |-> <<>>]
    /\ \E p \in SceneProps :
        /\ scene = Fragment(store, p)
        /\ handle = [centerGraph |-> useCenterGraph(p.animated), graph |-> store.graph]
    /\ camera = [passed |-> NoIds, called |-> FALSE,
                 result |-> centerNodesById(handle.centerGraph, <<>>, NoIds)]

(* ---------------------------------------------------------------------- *)
(* Specifications                                                           *)
(* ---------------------------------------------------------------------- *)
\* The parts a specification leaves alone stay as constructed.
PointerIdle ==
    ptr = [given |-> Callbacks,
           last |-> Outcome("none", 0, {}, FALSE, FALSE),
           count |-> [c \in Callbacks |-> 0],
           stops |-> 0,
           events |-> 0,
           active |-> FALSE]

SceneIdle ==
    /\ store = [graph |-> "graph1", nodes |-> <<>>, edges |-> <<>>]
    /\ scene = Fragment(store, [animated |-> FALSE, edgeShape |-> "line"])
    /\ handle = [centerGraph |-> useCenterGraph(FALSE), graph |-> "graph1"]
    /\ camera = [passed |-> NoIds, called |-> FALSE,
                 result |-> centerNodesById(handle.centerGraph, <<>>, NoIds)]

InitLine == LineInit /\ PointerIdle /\ SceneIdle

DragIds == NodeIds \cup {Null}

notLine == <<ptr, store, scene, handle, camera>>
notPointer == <<mounted, props, opac, vert, tube, draggingId, store, scene, handle, camera>>
notScene == <<mounted, props, opac, vert, tube, draggingId, ptr>>

Drag == (\E d \in DragIds : SetDraggingId(d)) /\ UNCHANGED notLine
Tick == Frame /\ UNCHANGED notLine
Unmount1 == LineUnmount("e1") /\ UNCHANGED notLine

\* One Line, its points, curvature and animation varying; size and opacity
\* stay at one value.
GeometryProps == {p \in LineProps : p.opacity = MaxOpacity /\ p.size = 2}

Render1 ==
    /\ \E p \in GeometryProps, fresh \in BOOLEAN : LineRender("e1", p, fresh)
    /\ UNCHANGED notLine

NextLine == Render1 \/ Unmount1 \/ Drag \/ Tick

SpecLine == InitLine /\ [][NextLine]_vars

\* One straight Line between two present endpoints, its size and opacity varying.
StyleProps ==
    {p \in LineProps : p.points \in {Edge(PointA, PointB), Edge(PointB, PointA)} /\ ~p.curved}

RenderStyle ==
    /\ \E p \in StyleProps, fresh \in BOOLEAN : LineRender("e1", p, fresh)
    /\ UNCHANGED notLine

NextStyle == RenderStyle \/ Unmount1 \/ Drag \/ Tick

SpecStyle == InitLine /\ [][NextStyle]_vars

\* Two sibling Lines sharing the store.
SiblingProps ==
    {p \in LineProps : /\ p.points \in {Edge(PointA, PointB), Edge(PointB, PointA)}
                       /\ ~p.curved /\ p.size = 2 /\ p.opacity = MaxOpacity}

RenderSibling ==
    /\ \E l \in LineIds, p \in SiblingProps, fresh \in BOOLEAN : LineRender(l, p, fresh)
    /\ UNCHANGED notLine

UnmountSibling == (\E l \in LineIds : LineUnmount(l)) /\ UNCHANGED notLine

NextSiblings == RenderSibling \/ UnmountSibling \/ Drag \/ Tick

SpecSiblings == InitLine /\ [][NextSiblings]_vars

\* The pointer events of one Line's mesh, for every choice of callbacks.
Down == (\E b \in 0..MaxButtons : PointerDown(b)) /\ UNCHANGED notPointer
Clicked == Click /\ UNCHANGED notPointer
Over == PointerOver /\ UNCHANGED notPointer
Out == PointerOut /\ UNCHANGED notPointer

NextPointer == Down \/ Clicked \/ Over \/ Out

InitPointer == LineInit /\ PointerInit /\ SceneIdle

SpecPointer == InitPointer /\ [][NextPointer]_vars

\* GraphScene over a changing store.
NodesUpdate ==
    /\ \E ns \in NodeLists : SetGraph(store.graph, ns, store.edges)
    /\ UNCHANGED notScene

EdgesUpdate ==
    /\ \E es \in EdgeLists : SetGraph(store.graph, store.nodes, es)
    /\ UNCHANGED notScene

GraphUpdate ==
    /\ \E g \in GraphSet : SetGraph(g, store.nodes, store.edges)
    /\ UNCHANGED notScene

PropsUpdate == (\E p \in SceneProps : SceneRender(p)) /\ UNCHANGED notScene

StoreNodeIds == {store.nodes[i].id : i \in 1..Len(store.nodes)}

Center ==
    /\ \/ CenterGraph(NoIds)
       \/ \E S \in SUBSET StoreNodeIds : CenterGraph(SomeIds(S))
    /\ UNCHANGED notScene

NextScene == NodesUpdate \/ EdgesUpdate \/ GraphUpdate \/ PropsUpdate \/ Center

InitScene == LineInit /\ PointerIdle /\ SceneInit

SpecScene == InitScene /\ [][NextScene]_vars

(* ---------------------------------------------------------------------- *)
(* Properties                                                               *)
(* ---------------------------------------------------------------------- *)
Settled(l) == mounted[l] /\ ~vert[l].fromVertices.active /\ ~vert[l].toVertices.active

\* The handler of l's vertex spring copied a geometry into the tube in this step.
Rebuilt(l) ==
    /\ mounted[l] /\ mounted'[l]
    /\ \/ vert'[l].fromVertices.value # vert[l].fromVertices.value
       \/ vert'[l].toVertices.value # vert[l].toVertices.value
       \/ tube'[l] # tube[l]

Straight(f, t) == <<Vertex(Vector3(f)), Vertex(Vector3(t))>>

\* C1: while the store's draggingId is set, every mounted Line's endpoint
\* spring is configured with duration 0 whatever `animated` is; the duration
\* is left undefined exactly when `animated` is true and no drag is on.
C1_DragMakesEndpointsImmediate ==
    \A l \in LineIds :
        mounted[l] =>
            /\ Truthy(draggingId) => vert[l].duration = 0
            /\ vert[l].duration = Undefined <=> (props[l].animated /\ ~Truthy(draggingId))

\* An animated Line whose endpoint is on its way to new points during a drag.
C1_Witness ==
    /\ mounted["e1"] /\ props["e1"].animated /\ Truthy(draggingId)
    /\ tube["e1"].built
    /\ vert["e1"].toVertices.active
    /\ vert["e1"].toVertices.value = VertexTarget(PointB)
    /\ vert["e1"].toVertices.goal = VertexTarget(PointA)
    /\ vert["e1"].duration = 0

\* C2: a pointer-down with buttons = 2 stops propagation, calls the
\* context-menu callback (when one was passed) and does not call the click
\* callback; a pointer-down with any other buttons value neither stops
\* propagation nor calls the context-menu callback.
C2_RightButtonIsContextMenu ==
    ptr.last.type = "pointerdown" =>
        IF ptr.last.buttons = 2
        THEN /\ ptr.last.stopped
             /\ "onClick" \notin ptr.last.called
             /\ "onContextMenu" \in ptr.given => "onContextMenu" \in ptr.last.called
        ELSE /\ ~ptr.last.stopped
             /\ "onContextMenu" \notin ptr.last.called

\* A right-button pointer-down that reached the context-menu callback.
C2_Witness ==
    /\ ptr.last.type = "pointerdown" /\ ptr.last.buttons = 2
    /\ ptr.last.called = {"onContextMenu"} /\ ptr.last.stopped
    /\ ptr.count["onContextMenu"] = 1 /\ ptr.count["onClick"] = 0

IsCurvedPath(path) == \E i \in 1..Len(path) : path[i].kind = "aux"

OnlyCurvedToggled(l) ==
    /\ mounted[l] /\ mounted'[l]
    /\ props'[l].curved # props[l].curved
    /\ props'[l] = [props[l] EXCEPT !.curved = props'[l].curved]
    /\ draggingId' = draggingId

\* C4: when only `curved` is toggled on a settled Line with both endpoints,
\* the tube follows the curve for the new value of `curved`, between the
\* same two endpoints.
C4_ToggleCurvedRebuilds ==
    [][\A l \in LineIds :
          (OnlyCurvedToggled(l) /\ Settled(l) /\ tube[l].built
           /\ props[l].points.from.present /\ props[l].points.to.present) =>
              /\ tube'[l].built
              /\ IsCurvedPath(tube'[l].path) = props'[l].curved
              /\ tube'[l].path[1] = tube[l].path[1]
              /\ tube'[l].path[Len(tube'[l].path)] = tube[l].path[Len(tube[l].path)]]_vars

\* C5 as stated: during a drag the opacity spring runs with duration 0, and
\* it is animated only when `animated` is true and no drag is in progress.
C5_DragMakesOpacityImmediate ==
    \A l \in LineIds :
        mounted[l] =>
            /\ Truthy(draggingId) => opac[l].duration = 0
            /\ opac[l].duration = Undefined <=> (props[l].animated /\ ~Truthy(draggingId))

\* C5 amended: the opacity spring's duration is 0 exactly when `animated` is
\* false; a drag in progress does not make opacity updates immediate.
C5_OpacityFollowsAnimatedOnly ==
    \A l \in LineIds :
        mounted[l] =>
            /\ opac[l].duration = (IF props[l].animated THEN Undefined ELSE 0)
            /\ (props[l].animated /\ Truthy(draggingId)) => opac[l].duration = Undefined

\* An animated Line whose opacity is part-way to a new value during a drag.
C5_Witness ==
    /\ mounted["e1"] /\ props["e1"].animated /\ Truthy(draggingId)
    /\ opac["e1"].active
    /\ opac["e1"].value = MaxOpacity /\ opac["e1"].goal = 0
    /\ opac["e1"].duration = Undefined

\* C6: GraphScene's elements are one Node per entry of state.nodes and one
\* Edge per entry of state.edges, in list order, keyed by the id, no two
\* with the same key, and nothing else.
C6_OneElementPerId ==
    /\ Len(scene.nodes) = Len(store.nodes)
    /\ Len(scene.edges) = Len(store.edges)
    /\ \A i \in 1..Len(store.nodes) :
          /\ scene.nodes[i].type = "Node"
          /\ scene.nodes[i].id = store.nodes[i].id
          /\ scene.nodes[i].key = store.nodes[i].id
    /\ \A i \in 1..Len(store.edges) :
          /\ scene.edges[i].type = "Edge"
          /\ scene.edges[i].id = store.edges[i].id
          /\ scene.edges[i].key = store.edges[i].id
    /\ \A i, j \in 1..Len(scene.nodes) : scene.nodes[i].key = scene.nodes[j].key => i = j
    /\ \A i, j \in 1..Len(scene.edges) : scene.edges[i].key = scene.edges[j].key => i = j

\* A store whose lists are not in id order, rendered.
C6_Witness ==
    /\ Len(store.nodes) = 2 /\ store.nodes[1].id = "n3" /\ store.nodes[2].id = "n1"
    /\ Len(store.edges) = 2 /\ store.edges[1].id = "e2"
    /\ Len(scene.nodes) = 2 /\ scene.nodes[1].key = "n3"
    /\ Len(scene.edges) = 2 /\ scene.edges[1].key = "e2"

\* C7: a missing endpoint makes all three coordinates of its spring target
\* 0, and the settled tube end lies at the origin.
C7_MissingEndpointAtOrigin ==
    \A l \in LineIds :
        mounted[l] =>
            /\ ~props[l].points.from.present =>
                  /\ vert[l].fromVertices.goal = Origin
                  /\ (Settled(l) /\ tube[l].built) => tube[l].path[1].at = Origin
            /\ ~props[l].points.to.present =>
                  /\ vert[l].toVertices.goal = Origin
                  /\ (Settled(l) /\ tube[l].built) =>
                        tube[l].path[Len(tube[l].path)].at = Origin

\* C8: the ref handle holds the store's current graph and the centerGraph of
\* useCenterGraph for the current `animated`; a call through the handle
\* hands the caller's ids over unchanged and centers on every node when no
\* ids are given and on exactly the given ids otherwise.
C8_HandleCentersGraph ==
    /\ [](/\ handle.graph = store.graph
          /\ handle.centerGraph = useCenterGraph(scene.props.animated))
    /\ [][camera' # camera =>
            /\ camera'.result.by = handle.centerGraph
            /\ camera'.result.received = camera'.passed
            /\ camera'.result.centered =
                  (IF camera'.passed.given THEN camera'.passed.ids ELSE StoreNodeIds)]_vars

\* centerGraph() centered on all three nodes after the graph object changed,
\* and the handle holds that graph.
C8_Witness ==
    /\ camera.called /\ ~camera.passed.given
    /\ camera.result.centered = NodeIds
    /\ store.graph = "graph2" /\ handle.graph = "graph2"

\* C9: once the vertex spring has settled, the geometry last copied into the
\* tube ends at the current points and has radius size / 2.
C9_TubeFollowsProps ==
    \A l \in LineIds :
        (Settled(l) /\ tube[l].built
         /\ props[l].points.from.present /\ props[l].points.to.present) =>
            /\ tube[l].path[1].at = Vector3(VertexTarget(props[l].points.from))
            /\ tube[l].path[Len(tube[l].path)].at = Vector3(VertexTarget(props[l].points.to))
            /\ tube[l].radius = props[l].size \div 2

Connected(l, n) == n = Source(l) \/ n = Target(l)

OtherLineChanged(l) ==
    /\ props'[l] = props[l] /\ mounted'[l] = mounted[l]
    /\ draggingId' = draggingId
    /\ \E k \in LineIds \ {l} : props'[k] # props[k] \/ mounted'[k] # mounted[k]

\* C10 as stated: a drag of a node that is not an endpoint of the edge, and
\* any prop change of another Line, leave this Line's animation mode and
\* geometry as they were.
C10_UnrelatedDragLeavesLineAlone ==
    [][\A l \in LineIds :
          mounted[l] =>
              /\ (draggingId' # draggingId /\ Truthy(draggingId')
                  /\ ~Connected(l, draggingId')) =>
                    (vert'[l].duration = vert[l].duration /\ tube'[l] = tube[l])
              /\ OtherLineChanged(l) =>
                    (vert'[l].duration = vert[l].duration /\ tube'[l] = tube[l])]_vars

\* C10 amended: a prop change, mount or unmount of another Line leaves this
\* Line's springs and geometry as they were; a change of the store's
\* draggingId sets this Line's mode from its own `animated` and from whether
\* any node at all is being dragged, connected to the edge or not.
C10_OwnPropsAndAnyDrag ==
    [][\A l \in LineIds :
          mounted[l] =>
              /\ OtherLineChanged(l) =>
                    (vert'[l] = vert[l] /\ opac'[l] = opac[l] /\ tube'[l] = tube[l])
              /\ draggingId' # draggingId =>
                    /\ vert'[l].duration =
                          (IF props[l].animated /\ ~Truthy(draggingId') THEN Undefined ELSE 0)
                    /\ tube'[l] = tube[l]]_vars

\* Two animated sibling Lines with different points while n3, which is no
\* endpoint of e1, is dragged: e1 runs with duration 0.
C10_Witness ==
    /\ mounted["e1"] /\ mounted["e2"]
    /\ props["e1"].animated /\ props["e2"].animated
    /\ props["e1"].points # props["e2"].points
    /\ draggingId = "n3" /\ ~Connected("e1", draggingId)
    /\ vert["e1"].duration = 0
    /\ tube["e1"].built

====
